---- MODULE Spec2Model ----
(***************************************************************************)
(* Model of greatbn/rsi-trade: the RiskManager of src/risk_manager.py      *)
(* (ledger, circuit breaker, position sizing), the SignalEngine of         *)
(* src/signal_engine.py (the three-timeframe cascade of generate), the     *)
(* Executor of src/executor.py (order placement, trailing stop), the       *)
(* polling loop of src/main.py and the indicators of src/indicators.py.    *)
(*                                                                         *)
(* Numbers.  The program computes in Python floats; the model computes in  *)
(* exact arithmetic on scaled integers:                                    *)
(*   money (balance, profit, swap, commission, daily_loss)  whole units    *)
(*   prices and trade_tick_size                             points         *)
(*   trade_tick_value                                       money per lot  *)
(*   volumes (volume_step/min/max, the lot size returned)   1/1000 lot     *)
(* A comparison  a >= b * (p / 100.0)  is modelled as  a * 100 >= b * p.   *)
(* round(x, 2) on a volume is rounding to the nearest multiple of 10;     *)
(* a decimal tie (x.xx5) is decided in Python by the binary value of the   *)
(* double, so the model leaves the direction of each tie open but fixed    *)
(* (half_up).                                                              *)
(* The prices of the SignalEngine are in units of 0.00001 (Price), its     *)
(* indicator values are whole numbers of RSI points, tp_rr = 1.5 and       *)
(* trailing_dist_rr = 0.5 are the fractions 3/2 and 1/2, and the prices of *)
(* the Executor are in price units of which the symbol's point is 1 or 2.  *)
(***************************************************************************)
EXTENDS Integers, Sequences, FiniteSets, TLC

\* ------------------------------------------------------------------ config
max_daily_loss_percent == 5
max_consecutive_losses == 3
risk_percent_per_trade == 1

\* the strategy configuration of the tests; adx_threshold and sl_points are the
\* defaults of the code; tp_rr is 1.5
rsi_upper == 75
rsi_lower == 25
tf2_zone_tolerance == 5
adx_threshold == 25
sl_points == 500
tp_rr == [num |-> 3, den |-> 2]

\* the trailing stop: the defaults of the code (activation_rr 1.0,
\* trailing_dist_rr 0.5) and the risk distance in points it assumes
activation_rr == 1
trailing_dist_rr == [num |-> 1, den |-> 2]
r_points == 500
\* the position types of the broker
BUY == 0
SELL == 1

\* execute_signal's number of attempts and the return codes it tells apart:
\* done, placed, and the two it retries on
max_retries == 3
TRADE_RETCODE_DONE == 10009
TRADE_RETCODE_PLACED == 10008
TRADE_RETCODE_REQUOTE == 10004
TRADE_RETCODE_NO_MONEY == 10021

\* ------------------------------------------------------------------ bounds
\* longest deal history the broker returns for the day
MaxDeals == 3
\* caps on the growth of the ledger by update_metrics
MaxDailyLoss == 120
MaxConsecutive == 3
\* rows of the fast frame
MaxRows == 3
\* latest time of a closed bar of the fast frame the polling loop is shown
MaxTime == 3
\* longest series and largest period the indicators are given
MaxBars == 4
MaxPeriod == 3

\* ------------------------------------------------------------------ inputs
\* get_history_deals: one closed deal (profit, swap, commission)
Deal(p, s, c) == [profit |-> p, swap |-> s, commission |-> c]
Deals ==
    { Deal(100, 0, 0), Deal(-50, 0, 0), Deal(-60, 0, 0), Deal(10, -3, -7) }

RECURSIVE SeqsUpTo(_, _)
SeqsUpTo(S, n) ==
    IF n = 0 THEN { <<>> }
    ELSE LET shorter == SeqsUpTo(S, n - 1)
         IN  shorter \cup { Append(h, d) : h \in { x \in shorter : Len(x) = n - 1 }, d \in S }

Histories == SeqsUpTo(Deals, MaxDeals)

Balances == { 0, 1000, 2000 }
Profits == { -50, 100 }
Prices == { 1, 2, 3, 4 }
LedgerPrices == { 1, 2 }

\* get_symbol_info: None is <<>>, a found spec is <<info>>
None == <<>>
SymbolInfo(ts, tv, step, min, max) ==
    << [trade_tick_size |-> ts, trade_tick_value |-> tv,
        volume_step |-> step, volume_min |-> min, volume_max |-> max] >>

\* the broker specs of the ledger specification: a standard 0.01-lot symbol,
\* a symbol whose spec is not loaded (zeros), and a failed lookup
BrokerSpecs == { None, SymbolInfo(1, 500, 10, 10, 100), SymbolInfo(1, 500, 0, 0, 0) }

\* the broker specs of the sizing specification
\* the broker specs of the sizing specification: volume steps of 0.001, 0.005
\* and 0.01 lot, volume_min and volume_max multiples of the step
VolumeSpecs ==
    { v \in { 1, 5, 10 } \X { 1, 5, 10, 12 } \X { 20, 26, 30 } :
        v[2] % v[1] = 0 /\ v[3] % v[1] = 0 }
SizingSpecs ==
    { SymbolInfo(ts, tv, v[1], v[2], v[3]) :
        ts \in { 0, 1, 2 }, tv \in { 0, 200, 250 }, v \in VolumeSpecs }

VARIABLES
    daily_loss,          \* RiskManager.daily_loss
    consecutive_losses,  \* RiskManager.consecutive_losses
    halt_trading,        \* RiskManager.halt_trading
    half_up,             \* the volumes (x.xx5 ties) that round(., 2) rounds up
    op,                  \* the last method called
    arg,                 \* its inputs: its arguments and what it read from the broker
    ret,                 \* its return value
    raised,              \* the exception it raised, "" for none
    logged,              \* the warning or error it logged, "" for none
    pre,                 \* the ledger before the call
    positions,           \* the broker's open positions
    sent,                \* the requests the last call sent to the broker
    last_tf1_close_time, \* main's marker of the last processed closed bar, None or << time >>
    pc,                  \* where main is: "start", "loop", "stopped" or "crashed"
    calls,               \* the calls the last iteration of main's loop made, in order
    evaluated            \* the times of the closed bars passed to generate so far

vars == << daily_loss, consecutive_losses, halt_trading, half_up,
           op, arg, ret, raised, logged, pre, positions, sent,
           last_tf1_close_time, pc, calls, evaluated >>

\* the state of main's polling loop
loop == << last_tf1_close_time, pc, calls, evaluated >>

ledger == [daily_loss |-> daily_loss, consecutive_losses |-> consecutive_losses,
           halt_trading |-> halt_trading]

abs(x) == IF x < 0 THEN -x ELSE x

\* ------------------------------------------------------- sync_daily_stats
\* mutant: swap and commission left out of a deal's net
net_profit_gross(deal) == deal.profit

net_profit(deal) == deal.profit + deal.swap + deal.commission

\* the loop over the deals, from the accumulators (daily_profit, consecutive_losses)
RECURSIVE sync_loop(_, _, _)
sync_loop(deals, daily_profit, consecutive) ==
    IF deals = <<>>
    THEN [daily_profit |-> daily_profit, consecutive_losses |-> consecutive]
    ELSE LET n == net_profit(Head(deals))
         IN  IF n = 0
             THEN sync_loop(Tail(deals), daily_profit, consecutive)
             ELSE sync_loop(Tail(deals), daily_profit + n,
                            IF n < 0 THEN consecutive + 1 ELSE 0)

\* mutant: the daily loss is the size of the day's net, a profit included
sync_daily_stats_abs(deals) ==
    LET r == sync_loop(deals, 0, 0)
    IN  [daily_loss |-> abs(r.daily_profit),
         consecutive_losses |-> r.consecutive_losses]

\* the ledger sync_daily_stats writes for a deal history
sync_daily_stats(deals) ==
    LET r == sync_loop(deals, 0, 0)
    IN  [daily_loss |-> IF r.daily_profit < 0 THEN abs(r.daily_profit) ELSE 0,
         consecutive_losses |-> r.consecutive_losses]

Call_sync_daily_stats ==
    \E deals \in Histories :
        LET r == sync_daily_stats(deals)
        IN  /\ daily_loss' = r.daily_loss
            /\ consecutive_losses' = r.consecutive_losses
            /\ op' = "sync_daily_stats"
            /\ arg' = [deals |-> deals]
            /\ ret' = 0
            /\ raised' = ""
            /\ logged' = ""
            /\ pre' = ledger
            /\ UNCHANGED << halt_trading, half_up, positions, sent >>
            /\ UNCHANGED loop

\* ----------------------------------------------------------- check_safety
\* mutant: the latch is set but not consulted
check_safety_unlatched(halt, daily, consecutive, account_balance) ==
    IF account_balance <= 0
    THEN [ret |-> FALSE, halt_trading |-> TRUE, logged |-> "balance"]
    ELSE IF daily * 100 >= account_balance * max_daily_loss_percent
    THEN [ret |-> FALSE, halt_trading |-> TRUE, logged |-> "max daily loss"]
    ELSE IF consecutive >= max_consecutive_losses
    THEN [ret |-> FALSE, halt_trading |-> TRUE, logged |-> "max consecutive losses"]
    ELSE [ret |-> TRUE, halt_trading |-> halt, logged |-> ""]

\* mutant: the consecutive-loss breaker is missing
check_safety_no_streak(halt, daily, consecutive, account_balance) ==
    IF halt
    THEN [ret |-> FALSE, halt_trading |-> halt, logged |-> ""]
    ELSE IF account_balance <= 0
    THEN [ret |-> FALSE, halt_trading |-> TRUE, logged |-> "balance"]
    ELSE IF daily * 100 >= account_balance * max_daily_loss_percent
    THEN [ret |-> FALSE, halt_trading |-> TRUE, logged |-> "max daily loss"]
    ELSE [ret |-> TRUE, halt_trading |-> halt, logged |-> ""]

\* mutant: the daily-loss breaker fires only above the limit, not at it
check_safety_strict(halt, daily, consecutive, account_balance) ==
    IF halt
    THEN [ret |-> FALSE, halt_trading |-> halt, logged |-> ""]
    ELSE IF account_balance <= 0
    THEN [ret |-> FALSE, halt_trading |-> TRUE, logged |-> "balance"]
    ELSE IF daily * 100 > account_balance * max_daily_loss_percent
    THEN [ret |-> FALSE, halt_trading |-> TRUE, logged |-> "max daily loss"]
    ELSE IF consecutive >= max_consecutive_losses
    THEN [ret |-> FALSE, halt_trading |-> TRUE, logged |-> "max consecutive losses"]
    ELSE [ret |-> TRUE, halt_trading |-> halt, logged |-> ""]

check_safety(halt, daily, consecutive, account_balance) ==
    IF halt
    THEN [ret |-> FALSE, halt_trading |-> halt, logged |-> ""]
    ELSE IF account_balance <= 0
    THEN [ret |-> FALSE, halt_trading |-> TRUE, logged |-> "balance"]
    ELSE IF daily * 100 >= account_balance * max_daily_loss_percent
    THEN [ret |-> FALSE, halt_trading |-> TRUE, logged |-> "max daily loss"]
    ELSE IF consecutive >= max_consecutive_losses
    THEN [ret |-> FALSE, halt_trading |-> TRUE, logged |-> "max consecutive losses"]
    ELSE [ret |-> TRUE, halt_trading |-> halt, logged |-> ""]

Call_check_safety ==
    \E account_balance \in Balances :
        LET r == check_safety(halt_trading, daily_loss, consecutive_losses, account_balance)
        IN  /\ halt_trading' = r.halt_trading
            /\ op' = "check_safety"
            /\ arg' = [account_balance |-> account_balance]
            /\ ret' = r.ret
            /\ raised' = ""
            /\ logged' = r.logged
            /\ pre' = ledger
            /\ UNCHANGED << daily_loss, consecutive_losses, half_up, positions, sent >>
            /\ UNCHANGED loop

\* ------------------------------------------------------- compute_lot_size
\* round(lot_size, 2): to the nearest multiple of 10, a tie as half_up says
round2(v, ties_up) ==
    LET q == v \div 10
        r == v % 10
    IN  IF r < 5 THEN q * 10
        ELSE IF r > 5 THEN (q + 1) * 10
        ELSE IF v \in ties_up THEN (q + 1) * 10 ELSE q * 10

\* math.floor(lot_size / lot_step) for lot_size = risk_amount / loss_per_lot,
\* with risk_amount = account_balance * (risk_percent_per_trade / 100.0) and
\* loss_per_lot = (price_diff / tick_size) * tick_value; in 1/1000 lot:
\*   lot_size = account_balance * risk_percent_per_trade * tick_size * 10
\*              / (price_diff * tick_value)
floor_steps(account_balance, price_diff, tick_size, tick_value, lot_step) ==
    (account_balance * risk_percent_per_trade * tick_size * 10)
        \div (price_diff * tick_value * lot_step)

Returns(v, msg) == [ret |-> v, raised |-> "", logged |-> msg]
Raises(e) == [ret |-> 0, raised |-> e, logged |-> ""]

\* mutant: a size above volume_max is skipped like one below volume_min
lot_size_capped_to_zero(info, sl_price, entry_price, account_balance, ties_up) ==
    IF info = None
    THEN Returns(0, "could not get symbol info")
    ELSE LET si == info[1]
             price_diff == abs(entry_price - sl_price)
         IN  IF price_diff = 0 THEN Returns(0, "")
             ELSE IF si.trade_tick_size = 0 THEN Returns(0, "tick size is 0")
             ELSE IF price_diff * si.trade_tick_value = 0 THEN Returns(0, "")
             ELSE IF si.volume_step = 0 THEN Raises("ZeroDivisionError")
             ELSE LET stepped == floor_steps(account_balance, price_diff,
                                             si.trade_tick_size, si.trade_tick_value,
                                             si.volume_step) * si.volume_step
                  IN  IF stepped < si.volume_min \/ stepped > si.volume_max
                      THEN Returns(0, "lot < min")
                      ELSE Returns(round2(stepped, ties_up), "")

\* compute_lot_size after its safety check has passed (lines 100-150)
lot_size(info, sl_price, entry_price, account_balance, ties_up) ==
    IF info = None
    THEN Returns(0, "could not get symbol info")
    ELSE LET si == info[1]
             price_diff == abs(entry_price - sl_price)
         IN  IF price_diff = 0 THEN Returns(0, "")
             ELSE IF si.trade_tick_size = 0 THEN Returns(0, "tick size is 0")
             ELSE IF price_diff * si.trade_tick_value = 0 THEN Returns(0, "")
             ELSE IF si.volume_step = 0 THEN Raises("ZeroDivisionError")
             ELSE LET stepped == floor_steps(account_balance, price_diff,
                                             si.trade_tick_size, si.trade_tick_value,
                                             si.volume_step) * si.volume_step
                  IN  IF stepped < si.volume_min
                      THEN Returns(0, "lot < min")
                      ELSE Returns(round2(IF stepped > si.volume_max
                                          THEN si.volume_max ELSE stepped, ties_up), "")

\* the whole method: the new halt latch and the outcome
compute_lot_size(halt, daily, consecutive, info, sl_price, entry_price, account_balance, ties_up) ==
    LET safe == check_safety(halt, daily, consecutive, account_balance)
    IN  IF ~safe.ret
        THEN [halt_trading |-> safe.halt_trading, out |-> Returns(0, safe.logged)]
        ELSE [halt_trading |-> safe.halt_trading,
              out |-> lot_size(info, sl_price, entry_price, account_balance, ties_up)]

\* a call with prices among prices, the broker answering the symbol lookup
\* with one of infos
Call_compute_lot_size(infos, prices) ==
    \E info \in infos, sl_price \in prices, entry_price \in prices,
       account_balance \in Balances :
        LET r == compute_lot_size(halt_trading, daily_loss, consecutive_losses,
                                  info, sl_price, entry_price,
                                  account_balance, half_up)
        IN  /\ halt_trading' = r.halt_trading
            /\ op' = "compute_lot_size"
            /\ arg' = [symbol_info |-> info, sl_price |-> sl_price,
                       entry_price |-> entry_price,
                       account_balance |-> account_balance]
            /\ ret' = r.out.ret
            /\ raised' = r.out.raised
            /\ logged' = r.out.logged
            /\ pre' = ledger
            /\ UNCHANGED << daily_loss, consecutive_losses, half_up, positions, sent >>
            /\ UNCHANGED loop

\* --------------------------------------------------------- update_metrics
\* mutant: a winning trade does not reset the losing streak
update_metrics_streak_kept(daily, consecutive, profit) ==
    IF profit < 0
    THEN [daily_loss |-> daily + abs(profit), consecutive_losses |-> consecutive + 1]
    ELSE [daily_loss |-> IF daily - profit < 0 THEN 0 ELSE daily - profit,
          consecutive_losses |-> consecutive]

\* mutant: the daily loss is not floored at 0
update_metrics_unclamped(daily, consecutive, profit) ==
    IF profit < 0
    THEN [daily_loss |-> daily + abs(profit), consecutive_losses |-> consecutive + 1]
    ELSE [daily_loss |-> daily - profit, consecutive_losses |-> 0]

update_metrics(daily, consecutive, profit) ==
    IF profit < 0
    THEN [daily_loss |-> daily + abs(profit), consecutive_losses |-> consecutive + 1]
    ELSE [daily_loss |-> IF daily - profit < 0 THEN 0 ELSE daily - profit,
          consecutive_losses |-> 0]

Call_update_metrics ==
    \E profit \in Profits :
        LET r == update_metrics(daily_loss, consecutive_losses, profit)
        IN  /\ r.daily_loss <= MaxDailyLoss
            /\ r.consecutive_losses <= MaxConsecutive
            /\ daily_loss' = r.daily_loss
            /\ consecutive_losses' = r.consecutive_losses
            /\ op' = "update_metrics"
            /\ arg' = [profit |-> profit]
            /\ ret' = 0
            /\ raised' = ""
            /\ logged' = ""
            /\ pre' = ledger
            /\ UNCHANGED << halt_trading, half_up, positions, sent >>
            /\ UNCHANGED loop

\* ------------------------------------------------------------ SignalEngine
\* an undefined indicator value (pandas NaN, the warm-up of an indicator) and
\* a column the frame does not have
NaN == -1
Absent == -2

isna(x) == x = NaN

\* Python's comparisons of floats: every comparison with NaN is False
lt(a, b) == ~isna(a) /\ ~isna(b) /\ a < b
le(a, b) == ~isna(a) /\ ~isna(b) /\ a <= b
gt(a, b) == ~isna(a) /\ ~isna(b) /\ a > b
ge(a, b) == ~isna(a) /\ ~isna(b) /\ a >= b

\* a price of x whole units, in units of 0.00001
Price(x) == x * 100000

\* a row of a frame of candles with its indicator columns
Bar(time, close, low, high, rsi, rsi_wma, rsi_ema, adx) ==
    [time |-> time, close |-> close, low |-> low, high |-> high,
     rsi |-> rsi, rsi_wma |-> rsi_wma, rsi_ema |-> rsi_ema, adx |-> adx]

\* df.iloc[-k] of a frame with at least k rows
iloc(df, k) == df[Len(df) - k + 1]

\* df.iloc[-lookback:], the last lookback rows or the whole frame if shorter
tail(df, lookback) ==
    SubSeq(df, IF Len(df) > lookback THEN Len(df) - lookback + 1 ELSE 1, Len(df))

column_min(S) == CHOOSE x \in S : \A y \in S : x <= y
column_max(S) == CHOOSE x \in S : \A y \in S : x >= y

\* stage 1, lines 90-96 (they overwrite whatever lines 74-83 assigned)
\* mutant: the extreme thresholds do not take priority
bias_by_wma_only(curr3) ==
    IF gt(curr3.rsi, curr3.rsi_wma) THEN "LONG" ELSE "SHORT"

bias(curr3) ==
    IF ge(curr3.rsi, rsi_upper) THEN "LONG"
    ELSE IF le(curr3.rsi, rsi_lower) THEN "SHORT"
    ELSE IF gt(curr3.rsi, curr3.rsi_wma) THEN "LONG" ELSE "SHORT"

\* stage 2
\* mutant: the band of the LONG bias is used for either bias
in_zone_one_band(side, curr2) ==
    LET dist == IF isna(curr2.rsi) \/ isna(curr2.rsi_wma) THEN NaN
                ELSE abs(curr2.rsi - curr2.rsi_wma)
    IN  le(dist, tf2_zone_tolerance) \/ (le(40, curr2.rsi) /\ le(curr2.rsi, 55))

\* mutant: the bands are exclusive at their upper bound
in_zone_open_band(side, curr2) ==
    LET dist == IF isna(curr2.rsi) \/ isna(curr2.rsi_wma) THEN NaN
                ELSE abs(curr2.rsi - curr2.rsi_wma)
    IN  IF side = "LONG"
        THEN le(dist, tf2_zone_tolerance) \/ (le(40, curr2.rsi) /\ lt(curr2.rsi, 55))
        ELSE le(dist, tf2_zone_tolerance) \/ (le(45, curr2.rsi) /\ lt(curr2.rsi, 60))

in_zone(side, curr2) ==
    LET dist == IF isna(curr2.rsi) \/ isna(curr2.rsi_wma) THEN NaN
                ELSE abs(curr2.rsi - curr2.rsi_wma)
    IN  IF side = "LONG"
        THEN le(dist, tf2_zone_tolerance) \/ (le(40, curr2.rsi) /\ le(curr2.rsi, 55))
        ELSE le(dist, tf2_zone_tolerance) \/ (le(45, curr2.rsi) /\ le(curr2.rsi, 60))

\* stage 3
\* mutant: any crossover confirms, whatever the bias
confirmed_either_way(side, prev1, curr1) ==
    \/ (le(prev1.rsi_ema, prev1.rsi_wma) /\ gt(curr1.rsi_ema, curr1.rsi_wma))
    \/ (le(prev1.rsi, prev1.rsi_wma) /\ gt(curr1.rsi, curr1.rsi_wma))
    \/ (ge(prev1.rsi_ema, prev1.rsi_wma) /\ lt(curr1.rsi_ema, curr1.rsi_wma))
    \/ (ge(prev1.rsi, prev1.rsi_wma) /\ lt(curr1.rsi, curr1.rsi_wma))

confirmed(side, prev1, curr1) ==
    IF side = "LONG"
    THEN LET ema_cross == le(prev1.rsi_ema, prev1.rsi_wma)
                          /\ gt(curr1.rsi_ema, curr1.rsi_wma)
         IN  ema_cross \/ (le(prev1.rsi, prev1.rsi_wma) /\ gt(curr1.rsi, curr1.rsi_wma))
    ELSE LET ema_cross == ge(prev1.rsi_ema, prev1.rsi_wma)
                          /\ lt(curr1.rsi_ema, curr1.rsi_wma)
         IN  ema_cross \/ (ge(prev1.rsi, prev1.rsi_wma) /\ lt(curr1.rsi, curr1.rsi_wma))

\* the price increment assumed when the caller gives none
fallback_point(entry_price) ==
    IF entry_price > Price(500)
    THEN IF entry_price > Price(20000) THEN 100000 ELSE 1000
    ELSE IF entry_price > Price(20) THEN 100
    ELSE 1

\* stage 4: the stop of the signal
stop_price(config, side, df1, entry_price, point) ==
    IF config.sl_method = "swing"
    THEN LET window == tail(df1, config.swing_lookback)
         IN  IF side = "LONG"
             THEN column_min({ window[i].low : i \in 1..Len(window) })
             ELSE column_max({ window[i].high : i \in 1..Len(window) })
    ELSE LET pt == IF point = None THEN fallback_point(entry_price) ELSE point[1]
             sl_dist == sl_points * pt
         IN  IF side = "LONG" THEN entry_price - sl_dist ELSE entry_price + sl_dist

Signal(symbol, side, entry_price, sl_price, tp_price, reason, tf1_close_time) ==
    [symbol |-> symbol, side |-> side, entry_price |-> entry_price,
     sl_price |-> sl_price, tp_price |-> tp_price, confidence |-> "0.8",
     reason |-> reason, tf1_close_time |-> tf1_close_time]

build_signal(config, side, df1, symbol, point) ==
    LET curr1 == iloc(df1, 1)
        entry_price == curr1.close
        sl_price == stop_price(config, side, df1, entry_price, point)
        dist == abs(entry_price - sl_price)
        tp_price == IF side = "LONG"
                    THEN entry_price + (dist * tp_rr.num) \div tp_rr.den
                    ELSE entry_price - (dist * tp_rr.num) \div tp_rr.den
    IN  Signal(symbol, side, entry_price, sl_price, tp_price, "Crossover", curr1.time)

\* mutant: the ADX filter is not applied
generate_unfiltered(config, df3, df2, df1, symbol, point) ==
    IF df3 = << >> \/ df2 = << >> \/ df1 = << >>
    THEN [ret |-> None, raised |-> ""]
    ELSE LET side == bias(iloc(df3, 1))
         IN  IF ~in_zone(side, iloc(df2, 1))
             THEN [ret |-> None, raised |-> ""]
             ELSE IF Len(df1) < 2
             THEN [ret |-> None, raised |-> "IndexError"]
             ELSE IF ~confirmed(side, iloc(df1, 2), iloc(df1, 1))
             THEN [ret |-> None, raised |-> ""]
             ELSE [ret |-> << build_signal(config, side, df1, symbol, point) >>,
                   raised |-> ""]

\* the signal returned is << signal >>, no signal is None; df1.iloc[-2] of a
\* frame of one row raises IndexError
generate(config, df3, df2, df1, symbol, point) ==
    IF df3 = << >> \/ df2 = << >> \/ df1 = << >>
    THEN [ret |-> None, raised |-> ""]
    ELSE LET adx == iloc(df1, 1).adx
         IN  IF adx # Absent /\ ~isna(adx) /\ lt(adx, adx_threshold)
             THEN [ret |-> None, raised |-> ""]
             ELSE LET side == bias(iloc(df3, 1))
                  IN  IF ~in_zone(side, iloc(df2, 1))
                      THEN [ret |-> None, raised |-> ""]
                      ELSE IF Len(df1) < 2
                      THEN [ret |-> None, raised |-> "IndexError"]
                      ELSE IF ~confirmed(side, iloc(df1, 2), iloc(df1, 1))
                      THEN [ret |-> None, raised |-> ""]
                      ELSE [ret |-> << build_signal(config, side, df1, symbol, point) >>,
                            raised |-> ""]

\* a call that re-reads the frames: each of df3, df2, df1 and point is drawn
\* from the set given for it
Call_generate(frames3, frames2, frames1, points) ==
    \E df3 \in frames3, df2 \in frames2, df1 \in frames1, point \in points :
        LET r == generate(arg.config, df3, df2, df1, arg.symbol, point)
        IN  /\ op' = "generate"
            /\ arg' = [config |-> arg.config, df3 |-> df3, df2 |-> df2, df1 |-> df1,
                       symbol |-> arg.symbol, point |-> point]
            /\ ret' = r.ret
            /\ raised' = r.raised
            /\ logged' = ""
            /\ pre' = ledger
            /\ UNCHANGED << daily_loss, consecutive_losses, halt_trading, half_up, positions, sent >>
            /\ UNCHANGED loop

\* ---------------------------------------------------------------- Executor
\* a position as get_open_positions returns it; prices in price units, the
\* symbol's point being a number of price units
Position(ticket, type, price_open, sl, price_current) ==
    [ticket |-> ticket, type |-> type, price_open |-> price_open, sl |-> sl,
     price_current |-> price_current]

\* the body of the loop for one position with a stop: the request it sends,
\* << [ticket, sl] >>, or None
\* mutant: the new stop is sent whether or not it improves the existing one
trail_any_stop(pos, point) ==
    LET r_value == r_points * point
        activation_dist == r_value * activation_rr
        trailing_dist == (r_value * trailing_dist_rr.num) \div trailing_dist_rr.den
    IN  IF pos.type = BUY
        THEN IF pos.price_current - pos.price_open >= activation_dist
             THEN << [ticket |-> pos.ticket, sl |-> pos.price_current - trailing_dist] >>
             ELSE None
        ELSE IF pos.type = SELL
        THEN IF pos.price_open - pos.price_current >= activation_dist
             THEN << [ticket |-> pos.ticket, sl |-> pos.price_current + trailing_dist] >>
             ELSE None
        ELSE None

trail(pos, point) ==
    LET r_value == r_points * point
        activation_dist == r_value * activation_rr
        trailing_dist == (r_value * trailing_dist_rr.num) \div trailing_dist_rr.den
    IN  IF pos.type = BUY
        THEN LET profit == pos.price_current - pos.price_open
                 new_sl == pos.price_current - trailing_dist
             IN  IF profit >= activation_dist /\ new_sl > pos.sl
                 THEN << [ticket |-> pos.ticket, sl |-> new_sl] >>
                 ELSE None
        ELSE IF pos.type = SELL
        THEN LET profit == pos.price_open - pos.price_current
                 new_sl == pos.price_current + trailing_dist
             IN  IF profit >= activation_dist /\ (pos.sl = 0 \/ new_sl < pos.sl)
                 THEN << [ticket |-> pos.ticket, sl |-> new_sl] >>
                 ELSE None
        ELSE None

IsRequest(r) == r # None

\* the whole evaluation: what it sends, the positions at the broker afterwards
\* (accepted[i] tells whether modify_position succeeds for the i-th position)
\* and the exception it raises; symbol_info.point of a failed lookup raises
\* mutant: a refused request ends the evaluation, the positions after it are
\* not looked at
manage_trailing_stops_until_refused(trailing_config, open_positions, symbol_info, accepted) ==
    LET unchanged == [sent |-> << >>, positions |-> open_positions, raised |-> ""]
    IN  IF ~trailing_config.enabled THEN unchanged
        ELSE IF open_positions = << >> THEN unchanged
        ELSE IF symbol_info = None /\ \E i \in 1..Len(open_positions) : open_positions[i].sl # 0
        THEN [unchanged EXCEPT !.raised = "AttributeError"]
        ELSE LET request == [i \in 1..Len(open_positions) |->
                               IF open_positions[i].sl = 0 THEN None
                               ELSE IF \E j \in 1..(i - 1) :
                                          /\ open_positions[j].sl # 0
                                          /\ trail(open_positions[j], symbol_info[1].point) # None
                                          /\ ~accepted[j]
                               THEN None
                               ELSE trail(open_positions[i], symbol_info[1].point)]
                 requests == SelectSeq(request, IsRequest)
             IN  [sent |-> [k \in 1..Len(requests) |-> requests[k][1]],
                  positions |-> [i \in 1..Len(open_positions) |->
                                   IF request[i] # None /\ accepted[i]
                                   THEN [open_positions[i] EXCEPT !.sl = request[i][1].sl]
                                   ELSE open_positions[i]],
                  raised |-> ""]

manage_trailing_stops(trailing_config, open_positions, symbol_info, accepted) ==
    LET unchanged == [sent |-> << >>, positions |-> open_positions, raised |-> ""]
    IN  IF ~trailing_config.enabled THEN unchanged
        ELSE IF open_positions = << >> THEN unchanged
        ELSE IF symbol_info = None /\ \E i \in 1..Len(open_positions) : open_positions[i].sl # 0
        THEN [unchanged EXCEPT !.raised = "AttributeError"]
        ELSE LET request == [i \in 1..Len(open_positions) |->
                               IF open_positions[i].sl = 0 THEN None
                               ELSE trail(open_positions[i], symbol_info[1].point)]
                 requests == SelectSeq(request, IsRequest)
             IN  [sent |-> [k \in 1..Len(requests) |-> requests[k][1]],
                  positions |-> [i \in 1..Len(open_positions) |->
                                   IF request[i] # None /\ accepted[i]
                                   THEN [open_positions[i] EXCEPT !.sl = request[i][1].sl]
                                   ELSE open_positions[i]],
                  raised |-> ""]

Call_manage_trailing_stops ==
    \E accepted \in [1..Len(positions) -> BOOLEAN] :
        LET r == manage_trailing_stops(arg.trailing, positions, arg.symbol_info, accepted)
        IN  /\ op' = "manage_trailing_stops"
            /\ arg' = [trailing |-> arg.trailing, symbol_info |-> arg.symbol_info,
                       positions |-> positions]
            /\ positions' = r.positions
            /\ sent' = r.sent
            /\ ret' = 0
            /\ raised' = r.raised
            /\ logged' = ""
            /\ pre' = ledger
            /\ UNCHANGED << daily_loss, consecutive_losses, halt_trading, half_up >>
            /\ UNCHANGED loop

\* what the broker answers to one attempt: the tick, None if there is none,
\* and the result of order_send, None or << retcode >>
BrokerAnswer(tick, result) == [tick |-> tick, result |-> result]

\* one market order: the request order_send is given, None when there is no
\* tick, and the result dict; sl and tp are attached only if not 0
place_order_market(answer, symbol, volume, side, sl, tp) ==
    IF answer.tick = None
    THEN [request |-> None, result |-> [retcode |-> -1]]
    ELSE LET tick == answer.tick[1]
             request == [symbol |-> symbol,
                         volume |-> volume,
                         type |-> IF side = "BUY" THEN "ORDER_TYPE_BUY" ELSE "ORDER_TYPE_SELL",
                         price |-> IF side = "BUY" THEN tick.ask ELSE tick.bid,
                         sl |-> IF sl # 0 THEN << sl >> ELSE None,
                         tp |-> IF tp # 0 THEN << tp >> ELSE None]
         IN  [request |-> << request >>,
              result |-> IF answer.result = None THEN [retcode |-> -1]
                         ELSE [retcode |-> answer.result[1]]]

\* the attempts from the given one on: the requests sent, the number of
\* attempts made and the value returned, << result >> or None
RECURSIVE retry(_, _, _, _)
retry(signal, volume, broker, attempt) ==
    IF attempt > max_retries
    THEN [sent |-> << >>, attempts |-> max_retries, ret |-> None]
    ELSE LET r == place_order_market(broker[attempt], signal.symbol, volume, signal.side,
                                     signal.sl_price, signal.tp_price)
             retcode == r.result.retcode
         IN  IF retcode = TRADE_RETCODE_DONE \/ retcode = TRADE_RETCODE_PLACED
             THEN [sent |-> r.request, attempts |-> attempt, ret |-> << r.result >>]
             ELSE IF retcode \in { TRADE_RETCODE_REQUOTE, TRADE_RETCODE_NO_MONEY }
             THEN LET rest == retry(signal, volume, broker, attempt + 1)
                  IN  [rest EXCEPT !.sent = r.request \o rest.sent]
             ELSE [sent |-> r.request, attempts |-> attempt, ret |-> None]

\* broker[k] is the broker's answer to the k-th attempt
execute_signal(signal, volume, broker) == retry(signal, volume, broker, 1)

\* arg records the signal, the lot size and the answers the call read
Call_execute_signal(signals, lots, answers) ==
    \E signal \in signals, volume \in lots, broker \in [1..max_retries -> answers] :
        LET r == execute_signal(signal, volume, broker)
        IN  /\ op' = "execute_signal"
            /\ arg' = [signal |-> signal, lot_size |-> volume,
                       broker |-> SubSeq(broker, 1, r.attempts)]
            /\ sent' = r.sent
            /\ ret' = r.ret
            /\ raised' = ""
            /\ logged' = ""
            /\ pre' = ledger
            /\ UNCHANGED << daily_loss, consecutive_losses, halt_trading, half_up, positions >>
            /\ UNCHANGED loop

\* the broker: the market moves to a price p among prices; a position whose
\* stop the price has reached is closed
StoppedOut(pos) ==
    /\ pos.sl # 0
    /\ IF pos.type = BUY THEN pos.price_current <= pos.sl ELSE pos.price_current >= pos.sl

PriceMove(prices) ==
    \E p \in prices :
        /\ positions' = SelectSeq([i \in 1..Len(positions) |->
                                     [positions[i] EXCEPT !.price_current = p]],
                                  LAMBDA pos : ~StoppedOut(pos))
        /\ UNCHANGED << daily_loss, consecutive_losses, halt_trading, half_up,
                        op, arg, ret, raised, logged, pre, sent >>
        /\ UNCHANGED loop

\* -------------------------------------------------------------------- main
\* the filters main reads from the configuration, with their defaults
DefaultFilters == [start_hour |-> 0, end_hour |-> 24, max_spread |-> 1000]

\* df.iloc[:-1], the frame without its forming row
closed(df) == SubSeq(df, 1, Len(df) - 1)

\* mutant: a bar as late as the marker counts as new
new_candle_or_same(last, signal_candle_time) == signal_candle_time >= last[1]

\* a closed bar later than the marker has appeared
new_candle(last, signal_candle_time) == signal_candle_time > last[1]

in_trading_hours(filters, current_hour) ==
    filters.start_hour <= current_hour /\ current_hour < filters.end_hour

\* spread / point > max_spread, the point being that of the symbol or 0.00001
spread_too_high(filters, tick, symbol_info) ==
    LET spread == tick.ask - tick.bid
        point == IF symbol_info # None THEN symbol_info[1].point ELSE 1
    IN  spread > filters.max_spread * point

\* mutant: the loop goes on whatever the safety check says
circuit_breaker_ignored(safe) == "loop"

\* where the loop is after the safety check: it goes on or breaks
circuit_breaker(safe) == IF ~safe THEN "stopped" ELSE "loop"

\* the times of the bars the calls to generate among made were given
generated(made) ==
    LET g == SelectSeq(made, LAMBDA c : c.op = "generate")
    IN  [k \in 1..Len(g) |-> g[k].last_bar]

\* the end of an iteration: the ledger l, the marker, the calls made, the
\* orders sent, the exception that left the loop and where main is next
EndIteration(l, last, made, orders, exception, next) ==
    /\ daily_loss' = l.daily_loss
    /\ consecutive_losses' = l.consecutive_losses
    /\ halt_trading' = l.halt_trading
    /\ last_tf1_close_time' = last
    /\ pc' = next
    /\ calls' = made
    /\ evaluated' = evaluated \o generated(made)
    /\ sent' = orders
    /\ op' = "main"
    /\ ret' = 0
    /\ raised' = exception
    /\ logged' = ""
    /\ UNCHANGED << half_up, positions, arg, pre >>

\* main up to its loop: the connection, then the initial sync
main(histories) ==
    /\ pc = "start"
    /\ \E connected \in BOOLEAN :
          IF ~connected
          THEN EndIteration(ledger, None, << >>, << >>, "", "stopped")
          ELSE \E deals \in histories :
                  LET r == sync_daily_stats(deals)
                      l == [ledger EXCEPT !.daily_loss = r.daily_loss,
                                          !.consecutive_losses = r.consecutive_losses]
                  IN  EndIteration(l, None, << [op |-> "sync_daily_stats"] >>, << >>,
                                   "", "loop")

\* the part of an iteration for a new closed bar at signal_candle_time: the
\* open positions, the filters, the signal, the sizing and the order
new_bar(l, called, account_balance, market, signal_candle_time, hours, ticks, infos, brokers) ==
    \E open_positions \in BOOLEAN :
      IF open_positions
      THEN EndIteration(l, << signal_candle_time >>, called, << >>, "", "loop")
      ELSE \E current_hour \in hours :
        IF ~in_trading_hours(arg.filters, current_hour)
        THEN EndIteration(l, << signal_candle_time >>, called, << >>, "", "loop")
        ELSE \E tick \in ticks, symbol_info \in infos :
          IF tick = None
          THEN EndIteration(l, last_tf1_close_time, called, << >>, "", "loop")
          ELSE IF spread_too_high(arg.filters, tick[1], symbol_info)
          THEN EndIteration(l, << signal_candle_time >>, called, << >>, "", "loop")
          ELSE
            LET df1_closed == closed(market.df1)
                point == IF symbol_info # None THEN << symbol_info[1].point >> ELSE None
                g == generate(arg.strategy, closed(market.df3), closed(market.df2),
                              df1_closed, arg.symbol, point)
                called2 == Append(called, [op |-> "generate", marker |-> last_tf1_close_time[1],
                                           last_bar |-> iloc(df1_closed, 1).time,
                                           ret |-> g.ret])
            IN  IF g.raised # ""
                THEN EndIteration(l, last_tf1_close_time, called2, << >>, g.raised, "crashed")
                ELSE IF g.ret = None
                THEN EndIteration(l, << signal_candle_time >>, called2, << >>, "", "loop")
                ELSE
                  LET signal == g.ret[1]
                      c == compute_lot_size(l.halt_trading, l.daily_loss, l.consecutive_losses,
                                            symbol_info, signal.sl_price, signal.entry_price,
                                            account_balance, half_up)
                      l2 == [l EXCEPT !.halt_trading = c.halt_trading]
                      called3 == Append(called2, [op |-> "compute_lot_size", ret |-> c.out.ret])
                  IN  IF c.out.raised # ""
                      THEN EndIteration(l2, last_tf1_close_time, called3, << >>,
                                        c.out.raised, "crashed")
                      ELSE IF c.out.ret > 0
                      THEN \E broker \in brokers :
                              LET e == execute_signal(signal, c.out.ret, broker)
                              IN  EndIteration(l2, << signal_candle_time >>,
                                               Append(called3, [op |-> "execute_signal",
                                                                signal |-> signal,
                                                                lot_size |-> c.out.ret,
                                                                ret |-> e.ret]),
                                               e.sent, "", "loop")
                      ELSE EndIteration(l2, << signal_candle_time >>, called3, << >>,
                                        "", "loop")

\* one iteration of the loop: the periodic sync if it is due (sync is None or
\* << deals >>), the circuit breaker, the candles, the new-bar check
main_loop(histories, accounts, markets, hours, ticks, infos, brokers) ==
    /\ pc = "loop"
    /\ \E sync \in { None } \cup { << deals >> : deals \in histories }, account_info \in accounts :
        LET r == IF sync = None THEN ledger ELSE sync_daily_stats(sync[1])
            l == [ledger EXCEPT !.daily_loss = r.daily_loss,
                                !.consecutive_losses = r.consecutive_losses]
            synced == IF sync = None THEN << >> ELSE << [op |-> "sync_daily_stats"] >>
        IN  IF account_info = None
            THEN EndIteration(l, last_tf1_close_time, synced, << >>, "", "loop")
            ELSE
              LET account_balance == account_info[1].balance
                  safe == check_safety(l.halt_trading, l.daily_loss, l.consecutive_losses,
                                       account_balance)
                  l2 == [l EXCEPT !.halt_trading = safe.halt_trading]
                  called == Append(synced, [op |-> "check_safety", ret |-> safe.ret])
              IN  IF circuit_breaker(safe.ret) = "stopped"
                  THEN EndIteration(l2, last_tf1_close_time, called, << >>, "", "stopped")
                  ELSE \E market \in markets :
                    IF market.df3 = << >> \/ market.df2 = << >> \/ market.df1 = << >>
                    THEN EndIteration(l2, last_tf1_close_time, called, << >>, "", "loop")
                    ELSE IF Len(market.df1) < 2
                    THEN EndIteration(l2, last_tf1_close_time, called, << >>,
                                      "IndexError", "crashed")
                    ELSE
                      LET signal_candle_time == iloc(market.df1, 2).time
                      IN  IF last_tf1_close_time = None
                          THEN EndIteration(l2, << signal_candle_time >>, called, << >>,
                                            "", "loop")
                          ELSE IF new_candle(last_tf1_close_time, signal_candle_time)
                          THEN new_bar(l2, called, account_balance, market,
                                       signal_candle_time, hours, ticks, infos, brokers)
                          ELSE EndIteration(l2, last_tf1_close_time, called, << >>,
                                            "", "loop")

\* the user interrupts the loop
KeyboardInterrupt ==
    /\ pc = "loop"
    /\ EndIteration(ledger, last_tf1_close_time, << >>, << >>, "KeyboardInterrupt", "stopped")

\* ------------------------------------------------------------------- spec
Fresh ==
    /\ daily_loss = 0
    /\ consecutive_losses = 0
    /\ halt_trading = FALSE
    /\ op = "__init__"
    /\ ret = 0
    /\ raised = ""
    /\ logged = ""
    /\ pre = [daily_loss |-> 0, consecutive_losses |-> 0, halt_trading |-> FALSE]
    /\ last_tf1_close_time = None
    /\ pc = "start"
    /\ calls = << >>
    /\ evaluated = << >>

\* no position is open at the broker
NoPositions == positions = << >> /\ sent = << >>

\* the ties round(., 2) can meet for a broker spec
TiePoints(info) ==
    IF info = None THEN {}
    ELSE IF info[1].volume_step = 0 THEN {}
    ELSE { v \in 0..info[1].volume_max : v % 10 = 5 /\ v % info[1].volume_step = 0 }

Init ==
    /\ Fresh
    /\ NoPositions
    /\ arg = [symbol_info |-> None]
    /\ half_up \in SUBSET UNION { TiePoints(i) : i \in BrokerSpecs }

Next ==
    \/ Call_sync_daily_stats
    \/ Call_check_safety
    \/ Call_update_metrics
    \/ Call_compute_lot_size(BrokerSpecs, LedgerPrices)

Spec == Init /\ [][Next]_vars

\* ------------------------------------------------------ sizing specification
\* the broker's spec of the symbol is fixed from the start
InitSizing ==
    /\ Fresh
    /\ NoPositions
    /\ \E info \in SizingSpecs :
        /\ arg = [symbol_info |-> info]
        /\ half_up \in SUBSET TiePoints(info)

NextSizing == Call_compute_lot_size({ arg.symbol_info }, Prices)

SpecSizing == InitSizing /\ [][NextSizing]_vars

\* ------------------------------------------------- signal specifications
\* a row with the prices of the tests' frames (low = close - 1, high = close + 1)
\* and the indicator values v = << rsi, rsi_ema, rsi_wma >>
IndicatorBar(time, v, adx) ==
    Bar(time, Price(100), Price(99), Price(101), v[1], v[3], v[2], adx)

\* the slow frame: empty, or its latest row with << rsi, rsi_wma >>
SlowValues ==
    { << 80, 50 >>, << 20, 50 >>, << 75, 80 >>, << 74, 80 >>, << 25, 20 >>,
      << 26, 20 >>, << 50, 40 >>, << 50, 50 >>, << NaN, NaN >>, << 50, NaN >> }
Frames3 ==
    { << >> } \cup { << IndicatorBar(1, << v[1], v[1], v[2] >>, Absent) >> : v \in SlowValues }

\* the mid frame: empty, or its latest row with << rsi, rsi_wma >>
MidValues ==
    { << 50, 50 >>, << 39, 34 >>, << 39, 33 >>, << 40, 30 >>, << 45, 30 >>,
      << 55, 70 >>, << 56, 70 >>, << 60, 70 >>, << 61, 70 >>, << NaN, NaN >>,
      << 50, NaN >> }
Frames2 ==
    { << >> } \cup { << IndicatorBar(1, << v[1], v[1], v[2] >>, Absent) >> : v \in MidValues }

\* the fast frame: << rsi, rsi_ema, rsi_wma >> of its row before the last and
\* of its last row
PrevValues ==
    { << 49, 49, 50 >>, << 51, 51, 50 >>, << 50, 50, 50 >>, << 51, 49, 50 >>,
      << 50, 49, 50 >>, << NaN, NaN, NaN >>, << 49, 49, NaN >>, << 49, NaN, 50 >>,
      << NaN, 49, 50 >> }
CurrValues ==
    { << 51, 51, 50 >>, << 49, 49, 50 >>, << 50, 50, 50 >>, << 49, 51, 50 >>,
      << 50, 51, 50 >>, << NaN, NaN, NaN >>, << 51, 51, NaN >>, << 51, NaN, 50 >>,
      << NaN, 51, 50 >> }
TrendValues == { << 49, 49, 50 >>, << 51, 51, 50 >>, << 49, 51, 50 >> }
AdxValues == { NaN, 24, 25 }
Frames1 ==
    { << >> }
    \cup { << IndicatorBar(1, c, a) >> : c \in TrendValues, a \in { Absent, 24 } }
    \cup { << IndicatorBar(1, p, Absent), IndicatorBar(2, c, Absent) >> :
             p \in PrevValues, c \in CurrValues }
    \cup { << IndicatorBar(1, p, a), IndicatorBar(2, c, a) >> :
             p \in { << 51, 49, 50 >>, << 49, 49, 50 >> }, c \in TrendValues,
             a \in AdxValues }

\* the strategy configuration of the tests
TestConfig == [sl_method |-> "swing", swing_lookback |-> 5]

NoFrames(config) ==
    arg = [config |-> config, df3 |-> << >>, df2 |-> << >>, df1 |-> << >>,
           symbol |-> "XAUUSD", point |-> None]

InitSignal ==
    /\ Fresh
    /\ NoPositions
    /\ half_up = {}
    /\ NoFrames(TestConfig)

\* one of the three frames has a new latest row
NextSignal ==
    \/ Call_generate(Frames3, { arg.df2 }, { arg.df1 }, { arg.point })
    \/ Call_generate({ arg.df3 }, Frames2, { arg.df1 }, { arg.point })
    \/ Call_generate({ arg.df3 }, { arg.df2 }, Frames1, { arg.point })

SpecSignal == InitSignal /\ [][NextSignal]_vars

\* ---------------------------------------------------- stop specification
\* frames whose last two rows confirm either bias, with prices
\* << close, low, high >> on an even grid (so that dist * 1.5 is exact)
SwingPrices ==
    { << Price(100), Price(100), Price(100) >>, << Price(100), Price(98), Price(100) >>,
      << Price(100), Price(100), Price(102) >>, << Price(100), Price(98), Price(102) >> }
Closes == { Price(10), Price(20), Price(100), Price(500), Price(1000),
            Price(20000), Price(20001) }

PriceBar(time, p, v) == Bar(time, p[1], p[2], p[3], v[1], v[3], v[2], Absent)

PriceFrames ==
    UNION { { [i \in 1..n |-> PriceBar(i, ps[i], IF i = n THEN << 49, 51, 50 >>
                                                   ELSE << 51, 49, 50 >>)] :
                ps \in [1..n -> SwingPrices] } : n \in 2..MaxRows }
    \cup { << PriceBar(1, << c, c - Price(2), c + Price(2) >>, << 51, 49, 50 >>),
              PriceBar(2, << c, c - Price(2), c + Price(2) >>, << 49, 51, 50 >>) >> :
             c \in Closes }

StopConfigs ==
    { [sl_method |-> "swing", swing_lookback |-> n] : n \in { 1, 2, 5 } }
    \cup { [sl_method |-> "fixed", swing_lookback |-> 5] }
Points == { None, << 1000 >> }

InitStops ==
    /\ Fresh
    /\ NoPositions
    /\ half_up = {}
    /\ \E config \in StopConfigs : NoFrames(config)

NextStops ==
    \/ Call_generate({ << >>, << IndicatorBar(1, << 80, 80, 50 >>, Absent) >>,
                       << IndicatorBar(1, << 20, 20, 50 >>, Absent) >> },
                     { arg.df2 }, { arg.df1 }, { arg.point })
    \/ Call_generate({ arg.df3 }, { << IndicatorBar(1, << 50, 50, 50 >>, Absent) >> },
                     { arg.df1 }, { arg.point })
    \/ Call_generate({ arg.df3 }, { arg.df2 }, PriceFrames, { arg.point })
    \/ Call_generate({ arg.df3 }, { arg.df2 }, { arg.df1 }, Points)

SpecStops == InitStops /\ [][NextStops]_vars

\* ------------------------------------------------ trailing specification
\* positions opened at 2000 and still there, with or without a stop
OpenPositions ==
    { << >>,
      << Position(1, BUY, 2000, 1500, 2000) >>,
      << Position(1, BUY, 2000, 0, 2000) >>,
      << Position(1, SELL, 2000, 2500, 2000) >>,
      << Position(1, BUY, 2000, 1500, 2000), Position(2, SELL, 2000, 2500, 2000) >>,
      << Position(1, BUY, 2000, 0, 2000), Position(2, SELL, 2000, 2500, 2000) >>,
      << Position(1, SELL, 2000, 0, 2000), Position(2, BUY, 2000, 1500, 2000) >>,
      << Position(1, BUY, 2000, 1500, 2000), Position(2, BUY, 2000, 1250, 2000) >> }
MarketPrices == { 1000, 1250, 1500, 1501, 2000, 2499, 2500, 2750, 3000 }
\* the trailing configuration: enabled, and the stop distance in points it sets
TrailingConfigs == { [enabled |-> e, sl_points |-> n] : e \in BOOLEAN, n \in { 300, 500 } }
\* the broker's answer to the symbol lookup: none, or a point of 1 or 2 units
SymbolPoints == { None, << [point |-> 1] >>, << [point |-> 2] >> }

InitTrailing ==
    /\ Fresh
    /\ half_up = {}
    /\ sent = << >>
    /\ positions \in OpenPositions
    /\ \E config \in TrailingConfigs, info \in SymbolPoints :
          arg = [trailing |-> config, symbol_info |-> info, positions |-> << >>]

NextTrailing ==
    \/ Call_manage_trailing_stops
    \/ PriceMove(MarketPrices)

SpecTrailing == InitTrailing /\ [][NextTrailing]_vars

\* ------------------------------------------------ execution specification
\* the signals generate builds for either bias from a frame of two rows, with
\* the stop 500 points of 0.01 from a close of 1000 or of 2000
ExecutionConfig == [sl_method |-> "fixed", swing_lookback |-> 5]
ExecutionFrames ==
    { << PriceBar(1, << c, c - Price(2), c + Price(2) >>, << 51, 49, 50 >>),
         PriceBar(2, << c, c - Price(2), c + Price(2) >>, << 49, 51, 50 >>) >> :
        c \in { Price(1000), Price(2000) } }
ExecutionSignals ==
    { build_signal(ExecutionConfig, side, df1, "XAUUSD", << 1000 >>) :
        side \in { "LONG", "SHORT" }, df1 \in ExecutionFrames }
\* lot sizes in 1/1000 lot
LotSizes == { 10, 20 }
\* no tick; or a tick with the ask 30 points above the bid and order_send
\* returning nothing, done, placed, a requote, no money or a rejection
BrokerAnswers ==
    { BrokerAnswer(None, None) }
    \cup { BrokerAnswer(<< [ask |-> Price(1000) + 30000, bid |-> Price(1000)] >>, result) :
             result \in { None, << TRADE_RETCODE_DONE >>, << TRADE_RETCODE_PLACED >>,
                          << TRADE_RETCODE_REQUOTE >>, << TRADE_RETCODE_NO_MONEY >>,
                          << 10006 >> } }

InitExecution ==
    /\ Fresh
    /\ NoPositions
    /\ half_up = {}
    /\ arg = [signal |-> None, lot_size |-> 0, broker |-> << >>]

NextExecution == Call_execute_signal(ExecutionSignals, LotSizes, BrokerAnswers)

SpecExecution == InitExecution /\ [][NextExecution]_vars

\* -------------------------------------------------- polling specification
\* the day's deals at a sync: none, a loss of 50, three losses in a row
MainHistories ==
    { << >>, << Deal(-50, 0, 0) >>,
      << Deal(-10, 0, 0), Deal(-10, 0, 0), Deal(-10, 0, 0) >> }
\* get_account_info: nothing, or the balance
AccountInfos == { None, << [balance |-> 1000] >>, << [balance |-> 2000] >> }

\* the three frames with the last closed bar of the fast frame at time t and a
\* forming row after it: a long, a short and a quiet market
FormingBar(t) == IndicatorBar(t + 1, << 50, 50, 50 >>, Absent)
Market(slow, prev, curr, t) ==
    [df3 |-> << IndicatorBar(t, slow, Absent), FormingBar(t) >>,
     df2 |-> << IndicatorBar(t, << 50, 50, 50 >>, Absent), FormingBar(t) >>,
     df1 |-> << IndicatorBar(t - 1, prev, Absent), IndicatorBar(t, curr, Absent),
                FormingBar(t) >>]
LongMarket(t) == Market(<< 80, 80, 50 >>, << 49, 49, 50 >>, << 51, 51, 50 >>, t)
ShortMarket(t) == Market(<< 20, 20, 50 >>, << 51, 51, 50 >>, << 49, 49, 50 >>, t)
QuietMarket(t) == Market(<< 80, 80, 50 >>, << 51, 51, 50 >>, << 51, 51, 50 >>, t)
\* a fast frame of one closed row, and one of the forming row only
YoungMarket(t) == [LongMarket(t) EXCEPT !.df1 = SubSeq(@, 2, 3)]
NewMarket(t) == [LongMarket(t) EXCEPT !.df1 = SubSeq(@, 3, 3)]
\* a failed fetch of the fast frame
NoMarket == [LongMarket(1) EXCEPT !.df1 = << >>]
Markets ==
    { NoMarket, NewMarket(1) }
    \cup { YoungMarket(t) : t \in 1..2 }
    \cup UNION { { LongMarket(t), ShortMarket(t), QuietMarket(t) } : t \in 1..MaxTime }

Hours == { 7, 12 }
\* no tick, a spread of 500 points of 0.00001 and one of 30 points of 0.01
MainTicks ==
    { None, << [ask |-> Price(100) + 500, bid |-> Price(100)] >>,
      << [ask |-> Price(100) + 30000, bid |-> Price(100)] >> }
\* the broker's spec of the symbol: a failed lookup, or a tick of 0.01 worth 1
\* per lot, volumes from 0.01 to 0.1 lot in steps of 0.01, a point of 0.01
MainSymbolInfos ==
    { None,
      << [trade_tick_size |-> 1000, trade_tick_value |-> 1, volume_step |-> 10,
          volume_min |-> 10, volume_max |-> 100, point |-> 1000] >> }
\* the broker's answers to the attempts of one execute_signal: no tick, done
\* or a requote; an attempt that is not made has no answer
MainAnswers ==
    { BrokerAnswer(None, None) }
    \cup { BrokerAnswer(<< [ask |-> Price(100) + 30000, bid |-> Price(100)] >>, result) :
             result \in { << TRADE_RETCODE_DONE >>, << TRADE_RETCODE_REQUOTE >> } }
MainBrokers ==
    { broker \in [1..max_retries -> MainAnswers] :
        \A k \in 2..max_retries :
            broker[k - 1].result # << TRADE_RETCODE_REQUOTE >> =>
                broker[k] = BrokerAnswer(None, None) }

InitMain ==
    /\ Fresh
    /\ NoPositions
    /\ half_up = {}
    /\ \E filters \in { DefaultFilters, [DefaultFilters EXCEPT !.start_hour = 8] } :
          arg = [filters |-> filters, strategy |-> TestConfig, symbol |-> "XAUUSD"]

NextMain ==
    \/ main(MainHistories)
    \/ main_loop(MainHistories, AccountInfos, Markets, Hours, MainTicks, MainSymbolInfos,
                 MainBrokers)
    \/ KeyboardInterrupt

SpecMain == InitMain /\ [][NextMain]_vars

\* ================================================================== claims
\* what the claims call an unsafe risk state, for a ledger and a balance
Unsafe(l, account_balance) ==
    \/ l.halt_trading
    \/ account_balance <= 0
    \/ l.daily_loss * 100 >= account_balance * max_daily_loss_percent
    \/ l.consecutive_losses >= max_consecutive_losses

\* C1: once halt_trading is set it is never cleared, and every check_safety
\* called while it is set returns false, whatever the balance and whatever
\* calls came in between.
C1_HaltIsPermanent ==
    [][ /\ halt_trading => halt_trading'
        /\ (halt_trading /\ op' = "check_safety") => ret' = FALSE ]_vars

\* a check_safety call on a latched manager whose balance has recovered and
\* whose ledger no longer meets any halt condition, denied all the same
C1_Witness ==
    /\ op = "check_safety"
    /\ pre.halt_trading
    /\ ~Unsafe([pre EXCEPT !.halt_trading = FALSE], arg.account_balance)
    /\ ret = FALSE
    /\ halt_trading

\* C2: in an unsafe risk state compute_lot_size returns exactly 0 and raises
\* nothing, for every symbol spec, entry price and stop price.
C2_UnsafeSizesZero ==
    (op = "compute_lot_size" /\ Unsafe(pre, arg.account_balance))
        => (raised = "" /\ ret = 0)

\* an unsafe call (consecutive losses only) on inputs that raise in a safe state
C2_Witness ==
    /\ op = "compute_lot_size"
    /\ ~pre.halt_trading
    /\ arg.account_balance > 0
    /\ pre.daily_loss * 100 < arg.account_balance * max_daily_loss_percent
    /\ pre.consecutive_losses >= max_consecutive_losses
    /\ arg.symbol_info # None
    /\ arg.symbol_info[1].volume_step = 0
    /\ arg.entry_price # arg.sl_price
    /\ ret = 0

\* C5: with the latch not set, check_safety denies and sets the latch exactly
\* when balance <= 0, or daily_loss >= balance * max_daily_loss_percent / 100,
\* or consecutive_losses >= max_consecutive_losses, the first of them in that
\* order being the one reported; otherwise it allows and changes nothing.
C5_CheckSafety ==
    (op = "check_safety" /\ ~pre.halt_trading) =>
        LET b == arg.account_balance
            c1 == b <= 0
            c2 == pre.daily_loss * 100 >= b * max_daily_loss_percent
            c3 == pre.consecutive_losses >= max_consecutive_losses
        IN  /\ ret = ~(c1 \/ c2 \/ c3)
            /\ halt_trading = (c1 \/ c2 \/ c3)
            /\ daily_loss = pre.daily_loss
            /\ consecutive_losses = pre.consecutive_losses
            /\ logged = IF c1 THEN "balance"
                        ELSE IF c2 THEN "max daily loss"
                        ELSE IF c3 THEN "max consecutive losses"
                        ELSE ""

\* the daily loss exactly at the limit, the consecutive-loss limit met too:
\* the daily-loss condition is the one that fires
C5_Witness ==
    /\ op = "check_safety"
    /\ ~pre.halt_trading
    /\ arg.account_balance > 0
    /\ pre.daily_loss * 100 = arg.account_balance * max_daily_loss_percent
    /\ pre.consecutive_losses >= max_consecutive_losses
    /\ logged = "max daily loss"
    /\ halt_trading
    /\ ret = FALSE

\* the day's deal history as the claims read it: the net of each deal, the
\* day's net, and the losing deals after the last winning one (a deal whose
\* net is 0 counts for nothing)
DealNets(deals) ==
    [i \in 1..Len(deals) |-> deals[i].profit + deals[i].swap + deals[i].commission]

RECURSIVE DayNet(_, _)
DayNet(nets, n) == IF n = 0 THEN 0 ELSE nets[n] + DayNet(nets, n - 1)

LosingStreak(nets) ==
    LET wins == { i \in DOMAIN nets : nets[i] > 0 }
        last == IF wins = {} THEN 0 ELSE CHOOSE i \in wins : \A j \in wins : j <= i
    IN  Cardinality({ i \in DOMAIN nets : i > last /\ nets[i] < 0 })

D(p) == Deal(p, 0, 0)

\* C6: sync_daily_stats writes a ledger that depends on the deal history
\* alone: daily_loss is |day's net| if that net is negative and 0 otherwise,
\* consecutive_losses is the number of losing deals after the last winning
\* one, zero-net deals ignored; so a second sync of the same history leaves
\* the ledger as it is.
C6_SyncReplaces ==
    /\ [](op = "sync_daily_stats" =>
            LET nets == DealNets(arg.deals)
                net == DayNet(nets, Len(nets))
            IN  /\ daily_loss = (IF net < 0 THEN -net ELSE 0)
                /\ consecutive_losses = LosingStreak(nets)
                /\ halt_trading = pre.halt_trading)
    /\ [][ (op = "sync_daily_stats" /\ op' = "sync_daily_stats" /\ arg' = arg)
             => (daily_loss' = daily_loss /\ consecutive_losses' = consecutive_losses) ]_vars

\* the history [+100, -50, -60] synced over a ledger that update_metrics had
\* moved elsewhere
C6_Witness ==
    /\ op = "sync_daily_stats"
    /\ arg.deals = << D(100), D(-50), D(-60) >>
    /\ pre.daily_loss > 10
    /\ pre.consecutive_losses # 2
    /\ daily_loss = 10
    /\ consecutive_losses = 2

\* C7 as claimed: the history [+100, -50] leaves daily_loss 0 and
\* consecutive_losses 0.
C7_Claimed ==
    (op = "sync_daily_stats" /\ arg.deals = << D(100), D(-50) >>)
        => (daily_loss = 0 /\ consecutive_losses = 0)

\* C7 as amended: the history [+100, -50] leaves daily_loss 0 and
\* consecutive_losses 1, the closing loss being a streak of one.
C7_ProfitDay ==
    (op = "sync_daily_stats" /\ arg.deals = << D(100), D(-50) >>)
        => (daily_loss = 0 /\ consecutive_losses = 1)

C7_Witness ==
    /\ op = "sync_daily_stats"
    /\ arg.deals = << D(100), D(-50) >>
    /\ pre.daily_loss > 0
    /\ daily_loss = 0

\* C8: update_metrics(profit) adds |profit| to daily_loss and 1 to
\* consecutive_losses when profit < 0; otherwise daily_loss becomes
\* max(0, daily_loss - profit) and consecutive_losses 0; halt_trading is
\* left as it was.
C8_UpdateMetrics ==
    op = "update_metrics" =>
        /\ halt_trading = pre.halt_trading
        /\ IF arg.profit < 0
           THEN /\ daily_loss = pre.daily_loss - arg.profit
                /\ consecutive_losses = pre.consecutive_losses + 1
           ELSE /\ daily_loss = (IF pre.daily_loss - arg.profit > 0
                                 THEN pre.daily_loss - arg.profit ELSE 0)
                /\ consecutive_losses = 0

\* a win on a halted manager that has a losing streak and a daily loss
\* larger than the win
C8_Witness ==
    /\ op = "update_metrics"
    /\ arg.profit > 0
    /\ pre.halt_trading
    /\ pre.consecutive_losses > 0
    /\ pre.daily_loss > arg.profit
    /\ daily_loss > 0

\* C9: daily_loss >= 0 and consecutive_losses >= 0 in every reachable state.
C9_LedgerNonNegative ==
    daily_loss >= 0 /\ consecutive_losses >= 0

\* a win larger than the daily loss it is set against
C9_Witness ==
    /\ op = "update_metrics"
    /\ arg.profit > pre.daily_loss
    /\ pre.daily_loss > 0
    /\ daily_loss = 0

\* the stop distance of a compute_lot_size call
StopDistance(a) == abs(a.entry_price - a.sl_price)

\* C3 as claimed: the size compute_lot_size returns is 0 or lies in
\* [volume_min, volume_max].
C3_Claimed ==
    (op = "compute_lot_size" /\ raised = "" /\ arg.symbol_info # None) =>
        \/ ret = 0
        \/ /\ arg.symbol_info[1].volume_min <= ret
           /\ ret <= arg.symbol_info[1].volume_max

\* C4 as claimed: with a positive volume step the size returned is at most
\* raw_size = risk_amount / ((|entry - sl| / tick_size) * tick_value), and it
\* is 0 when raw_size is below volume_min.  (In 1/1000 lot, raw_size is
\* balance * risk_percent_per_trade * tick_size * 10 / (|entry - sl| * tick_value).)
C4_Claimed ==
    ( /\ op = "compute_lot_size"
      /\ raised = ""
      /\ ~Unsafe(pre, arg.account_balance)
      /\ arg.symbol_info # None
      /\ arg.symbol_info[1].volume_step > 0
      /\ arg.symbol_info[1].trade_tick_size > 0
      /\ arg.symbol_info[1].trade_tick_value > 0
      /\ StopDistance(arg) > 0 ) =>
        LET si == arg.symbol_info[1]
            num == arg.account_balance * risk_percent_per_trade * si.trade_tick_size * 10
            den == StopDistance(arg) * si.trade_tick_value
        IN  /\ ret * den <= num
            /\ num < si.volume_min * den => ret = 0

\* two successive compute_lot_size calls that both sized a position (safe
\* risk state, nothing raised) for the same balance and broker spec
SameSizing ==
    /\ op = "compute_lot_size" /\ op' = "compute_lot_size"
    /\ raised = "" /\ raised' = ""
    /\ arg'.account_balance = arg.account_balance
    /\ arg'.symbol_info = arg.symbol_info
    /\ ~Unsafe(pre, arg.account_balance)
    /\ ~Unsafe(pre', arg'.account_balance)

ZeroDistanceSizesZero ==
    (op = "compute_lot_size" /\ StopDistance(arg) = 0) => (raised = "" /\ ret = 0)

\* C10 as claimed: in a safe risk state, with balance and broker spec the
\* same, a call with a stop distance at least as large as that of the call
\* before it returns a size no larger; and a stop distance of 0 returns 0.
C10_Claimed ==
    /\ []ZeroDistanceSizesZero
    /\ [][ (SameSizing /\ StopDistance(arg') >= StopDistance(arg))
           => ret' <= ret ]_vars

\* C10 as amended: the same over the stop distances greater than 0 (the
\* size at distance 0 is 0, below the sizes at the distances next to it).
C10_Monotone ==
    /\ []ZeroDistanceSizesZero
    /\ [][ ( /\ SameSizing
             /\ StopDistance(arg) > 0
             /\ StopDistance(arg') >= StopDistance(arg) )
           => ret' <= ret ]_vars

\* a sized call at the largest stop distance whose size is positive and
\* smaller than the size at a smaller distance
C10_Witness ==
    /\ op = "compute_lot_size"
    /\ ~Unsafe(pre, arg.account_balance)
    /\ ret > 0
    /\ \E sl \in Prices :
        /\ abs(arg.entry_price - sl) > 0
        /\ abs(arg.entry_price - sl) < StopDistance(arg)
        /\ lot_size(arg.symbol_info, sl, arg.entry_price,
                    arg.account_balance, half_up).ret > ret

\* ------------------------------------------------------ SignalEngine claims
\* the rows a call of generate with inputs a reads
Slow(a) == a.df3[Len(a.df3)]
Mid(a) == a.df2[Len(a.df2)]
Curr(a) == a.df1[Len(a.df1)]
Prev(a) == a.df1[Len(a.df1) - 1]
\* every frame has the rows the stages read
AllFrames(a) == a.df3 # << >> /\ a.df2 # << >> /\ Len(a.df1) >= 2

SignalReturned == op = "generate" /\ raised = "" /\ ret # None
NoSignal == op = "generate" /\ raised = "" /\ ret = None

\* the stages as the claims state them
Defined(x) == x # NaN
BiasOf(curr3) ==
    IF Defined(curr3.rsi) /\ curr3.rsi >= rsi_upper THEN "LONG"
    ELSE IF Defined(curr3.rsi) /\ curr3.rsi <= rsi_lower THEN "SHORT"
    ELSE IF Defined(curr3.rsi) /\ Defined(curr3.rsi_wma) /\ curr3.rsi > curr3.rsi_wma
    THEN "LONG" ELSE "SHORT"
ZoneAccepts(side, curr2) ==
    /\ Defined(curr2.rsi)
    /\ \/ Defined(curr2.rsi_wma) /\ abs(curr2.rsi - curr2.rsi_wma) <= tf2_zone_tolerance
       \/ side = "LONG" /\ 40 <= curr2.rsi /\ curr2.rsi <= 55
       \/ side = "SHORT" /\ 45 <= curr2.rsi /\ curr2.rsi <= 60
Below(x, wma) == Defined(x) /\ Defined(wma) /\ x < wma
Above(x, wma) == Defined(x) /\ Defined(wma) /\ x > wma
CrossUp(prev1, curr1) ==
    \/ ~Above(prev1.rsi_ema, prev1.rsi_wma) /\ Defined(prev1.rsi_ema) /\ Defined(prev1.rsi_wma)
       /\ Above(curr1.rsi_ema, curr1.rsi_wma)
    \/ ~Above(prev1.rsi, prev1.rsi_wma) /\ Defined(prev1.rsi) /\ Defined(prev1.rsi_wma)
       /\ Above(curr1.rsi, curr1.rsi_wma)
CrossDown(prev1, curr1) ==
    \/ ~Below(prev1.rsi_ema, prev1.rsi_wma) /\ Defined(prev1.rsi_ema) /\ Defined(prev1.rsi_wma)
       /\ Below(curr1.rsi_ema, curr1.rsi_wma)
    \/ ~Below(prev1.rsi, prev1.rsi_wma) /\ Defined(prev1.rsi) /\ Defined(prev1.rsi_wma)
       /\ Below(curr1.rsi, curr1.rsi_wma)
Crossed(side, a) ==
    IF side = "LONG" THEN CrossUp(Prev(a), Curr(a)) ELSE CrossDown(Prev(a), Curr(a))
\* the three stages pass for the inputs a
StagesPass(a) ==
    /\ ZoneAccepts(BiasOf(Slow(a)), Mid(a))
    /\ Crossed(BiasOf(Slow(a)), a)

\* a later call differs from the call before it in one stage only
NextCall == op = "generate" /\ op' = "generate" /\ AllFrames(arg')
BiasChanged ==
    /\ NextCall /\ arg'.df2 = arg.df2 /\ arg'.df1 = arg.df1
    /\ BiasOf(Slow(arg')) # BiasOf(Slow(arg))
ZoneChanged ==
    /\ NextCall /\ arg'.df3 = arg.df3 /\ arg'.df1 = arg.df1
    /\ ~ZoneAccepts(BiasOf(Slow(arg)), Mid(arg'))
ConfirmationChanged ==
    /\ NextCall /\ arg'.df3 = arg.df3 /\ arg'.df2 = arg.df2
    /\ ~Crossed(BiasOf(Slow(arg)), arg')

\* every indicator value the stages read for the inputs a is defined
Known(a) ==
    \A x \in { Slow(a).rsi, Slow(a).rsi_wma, Mid(a).rsi, Mid(a).rsi_wma,
                Prev(a).rsi, Prev(a).rsi_ema, Prev(a).rsi_wma,
                Curr(a).rsi, Curr(a).rsi_ema, Curr(a).rsi_wma } : Defined(x)

\* C11 as claimed: a signal is returned only when the three stages pass, and
\* after a call that returned a signal a call in which one stage alone (bias,
\* zone or confirmation) has changed returns no signal (all values defined).
C11_Claimed ==
    [][ (SignalReturned /\ Known(arg)) =>
          /\ StagesPass(arg)
          /\ ((BiasChanged \/ ZoneChanged \/ ConfirmationChanged) /\ Known(arg'))
                => NoSignal' ]_vars

\* C11: a signal is returned only when the three stages pass; after a call that
\* returned a signal, a call in which the zone alone or the confirmation alone
\* has changed to failing returns no signal, and a call in which the bias alone
\* has changed returns no signal unless zone and confirmation also pass for the
\* new bias, and then the signal has the new side.
C11_Toggle ==
    [][ SignalReturned =>
          /\ StagesPass(arg)
          /\ (ZoneChanged \/ ConfirmationChanged) => NoSignal'
          /\ BiasChanged =>
                \/ NoSignal'
                \/ /\ SignalReturned'
                   /\ StagesPass(arg')
                   /\ ret'[1].side = BiasOf(Slow(arg'))
                   /\ ret'[1].side # ret[1].side ]_vars

\* a signal for inputs that confirm either bias
C11_Witness ==
    /\ SignalReturned
    /\ ret[1].side = "SHORT"
    /\ CrossUp(Prev(arg), Curr(arg))
    /\ CrossDown(Prev(arg), Curr(arg))
    /\ ZoneAccepts("LONG", Mid(arg))

\* C12: a signal is returned only if the last two fast rows cross in the
\* direction of the bias (EMA or RSI through the WMA); a crossover against the
\* bias gives no signal, and the side of a signal is the slow bias.
C12_Crossover ==
    /\ SignalReturned =>
          /\ ret[1].side = BiasOf(Slow(arg))
          /\ ret[1].side = "LONG" => CrossUp(Prev(arg), Curr(arg))
          /\ ret[1].side = "SHORT" => CrossDown(Prev(arg), Curr(arg))
    /\ (op = "generate" /\ AllFrames(arg) /\ ~Crossed(BiasOf(Slow(arg)), arg)) => NoSignal

\* the second test: LONG crossover under a SHORT bias, no signal
C12_Witness ==
    /\ NoSignal
    /\ AllFrames(arg)
    /\ Slow(arg).rsi = 20
    /\ ZoneAccepts("SHORT", Mid(arg))
    /\ CrossUp(Prev(arg), Curr(arg))
    /\ ~CrossDown(Prev(arg), Curr(arg))

\* C13: the bias is LONG if the slow RSI >= rsi_upper, else SHORT if it is
\* <= rsi_lower, else LONG if RSI > WMA and SHORT if RSI <= WMA; it is always
\* LONG or SHORT, and it is the side of the signal returned.
C13_Bias ==
    (op = "generate" /\ arg.df3 # << >>) =>
        LET rsi == Slow(arg).rsi
            wma == Slow(arg).rsi_wma
            b == bias(Slow(arg))
        IN  /\ b \in { "LONG", "SHORT" }
            /\ Defined(rsi) =>
                  /\ rsi >= rsi_upper => b = "LONG"
                  /\ (rsi < rsi_upper /\ rsi <= rsi_lower) => b = "SHORT"
                  /\ (rsi_lower < rsi /\ rsi < rsi_upper /\ Defined(wma)) =>
                        /\ rsi > wma => b = "LONG"
                        /\ rsi <= wma => b = "SHORT"
            /\ SignalReturned => ret[1].side = b

\* a LONG signal from RSI = rsi_upper below its WMA: the threshold decides
C13_Witness ==
    /\ SignalReturned
    /\ Slow(arg).rsi = rsi_upper
    /\ Slow(arg).rsi_wma > rsi_upper
    /\ ret[1].side = "LONG"

\* C14: the zone stage accepts exactly when |RSI - WMA| <= tf2_zone_tolerance on
\* the latest mid row, or RSI is in [40, 55] under a LONG bias, or in [45, 60]
\* under a SHORT bias; otherwise generate returns no signal.
C14_Zone ==
    (op = "generate" /\ arg.df3 # << >> /\ arg.df2 # << >>) =>
        LET side == BiasOf(Slow(arg))
        IN  /\ in_zone(side, Mid(arg)) = ZoneAccepts(side, Mid(arg))
            /\ ~ZoneAccepts(side, Mid(arg)) => NoSignal
            /\ SignalReturned => ZoneAccepts(side, Mid(arg))

\* a LONG signal with the mid RSI on the upper bound of its band, far from the WMA
C14_Witness ==
    /\ SignalReturned
    /\ ret[1].side = "LONG"
    /\ Mid(arg).rsi = 55
    /\ abs(Mid(arg).rsi - Mid(arg).rsi_wma) > tf2_zone_tolerance

\* C15: a defined ADX below adx_threshold on the latest fast row gives no
\* signal whatever the stages say; with ADX undefined or its column absent the
\* three stages alone decide.
C15_AdxFilter ==
    (op = "generate" /\ arg.df3 # << >> /\ arg.df2 # << >> /\ arg.df1 # << >>) =>
        LET adx == Curr(arg).adx
        IN  /\ (adx # Absent /\ Defined(adx) /\ adx < adx_threshold) => NoSignal
            /\ ((adx = Absent \/ ~Defined(adx)) /\ AllFrames(arg)) =>
                  /\ raised = ""
                  /\ SignalReturned <=> StagesPass(arg)

\* the three stages pass and the ADX of 24 stops the signal
C15_Witness ==
    /\ NoSignal
    /\ AllFrames(arg)
    /\ StagesPass(arg)
    /\ Curr(arg).adx = 24

\* C16 as claimed: if the slow RSI or WMA, the mid RSI or WMA, or the RSI, EMA
\* or WMA of one of the last two fast rows is undefined, generate returns no
\* signal.
C16_Claimed ==
    (op = "generate" /\ AllFrames(arg) /\ ~Known(arg)) => NoSignal

\* C18 as claimed: if one of the three frames is empty or lacks the rows a
\* stage reads, generate returns no signal and raises nothing.
C18_Claimed ==
    (op = "generate" /\ ~AllFrames(arg)) => NoSignal

\* C17 as claimed: a signal has entry_price = the close of the last fast row,
\* sl_price # entry_price, and tp_price = entry + |entry - sl| * tp_rr for LONG,
\* entry - |entry - sl| * tp_rr for SHORT, under the swing and the fixed method.
C17_Claimed ==
    SignalReturned =>
        LET s == ret[1]
            dist == abs(s.entry_price - s.sl_price)
        IN  /\ s.entry_price = Curr(arg).close
            /\ s.sl_price # s.entry_price
            /\ s.side = "LONG" => (s.tp_price - s.entry_price) * tp_rr.den = dist * tp_rr.num
            /\ s.side = "SHORT" => (s.entry_price - s.tp_price) * tp_rr.den = dist * tp_rr.num

\* ---------------------------------------------------------- Executor claims
\* the position with ticket t among ps
PositionOf(ps, t) == ps[CHOOSE i \in 1..Len(ps) : ps[i].ticket = t]

\* C19: every stop a trailing evaluation requests is strictly higher than the
\* existing stop of a BUY position and strictly lower than that of a SELL
\* position, and over evaluations and price moves, the requests succeeding or
\* failing, the stop of an open position never moves backward.
C19_StopsOnlyTighten ==
    [][ /\ \A k \in 1..Len(sent') :
              LET pos == PositionOf(arg'.positions, sent'[k].ticket)
              IN  /\ pos.type = BUY => sent'[k].sl > pos.sl
                  /\ pos.type = SELL => sent'[k].sl < pos.sl
        /\ \A i \in 1..Len(positions), j \in 1..Len(positions') :
              positions[i].ticket = positions'[j].ticket =>
                  /\ positions[i].type = BUY => positions'[j].sl >= positions[i].sl
                  /\ positions[i].type = SELL => positions'[j].sl <= positions[i].sl ]_vars

\* a BUY position whose stop was already trailed above its entry gets a request
\* for a still higher stop, and the broker refuses it
C19_Witness ==
    /\ op = "manage_trailing_stops"
    /\ \E k \in 1..Len(sent) :
          LET pos == PositionOf(arg.positions, sent[k].ticket)
          IN  /\ pos.type = BUY
              /\ pos.sl > pos.price_open
              /\ sent[k].sl > pos.sl
              /\ \E i \in 1..Len(positions) :
                    positions[i].ticket = pos.ticket /\ positions[i].sl = pos.sl

\* C20 as claimed: a stop change is requested only if trailing is enabled, the
\* existing stop is not 0 and the profit (current - entry for BUY, entry -
\* current for SELL) is >= activation_rr * risk_unit, risk_unit being the
\* configured number of points times the symbol's point; the stop requested is
\* current - trailing_dist_rr * risk_unit for BUY, current + it for SELL.
C20_Claimed ==
    op = "manage_trailing_stops" =>
        \A k \in 1..Len(sent) :
            LET pos == PositionOf(arg.positions, sent[k].ticket)
                risk_unit == arg.trailing.sl_points * arg.symbol_info[1].point
                profit == IF pos.type = BUY THEN pos.price_current - pos.price_open
                          ELSE pos.price_open - pos.price_current
                moved == IF pos.type = BUY THEN pos.price_current - sent[k].sl
                         ELSE sent[k].sl - pos.price_current
            IN  /\ arg.trailing.enabled
                /\ pos.sl # 0
                /\ profit >= activation_rr * risk_unit
                /\ moved * trailing_dist_rr.den = trailing_dist_rr.num * risk_unit

\* C21: in one trailing evaluation at most one stop-modification request is
\* sent per open position (the tickets of the requests are distinct and are
\* tickets of the positions the evaluation read), and a request that fails
\* neither is sent again nor keeps the remaining positions from being
\* evaluated: every position whose stop is due for a change has its request,
\* whatever the broker answered to the others.
C21_OneRequestPerPosition ==
    op = "manage_trailing_stops" =>
        /\ \A k, l \in 1..Len(sent) : sent[k].ticket = sent[l].ticket => k = l
        /\ \A k \in 1..Len(sent) :
              \E i \in 1..Len(arg.positions) : arg.positions[i].ticket = sent[k].ticket
        /\ (raised = "" /\ arg.trailing.enabled /\ arg.symbol_info # None) =>
              \A i \in 1..Len(arg.positions) :
                  LET pos == arg.positions[i]
                  IN  (pos.sl # 0 /\ trail(pos, arg.symbol_info[1].point) # None) =>
                          \E k \in 1..Len(sent) : sent[k].ticket = pos.ticket

\* two positions were due, the request for the first was refused (its stop at
\* the broker is the one the evaluation read) and the second was still sent
C21_Witness ==
    /\ op = "manage_trailing_stops"
    /\ Len(sent) = 2
    /\ Len(positions) = 2
    /\ sent[1].ticket = arg.positions[1].ticket
    /\ sent[2].ticket = arg.positions[2].ticket
    /\ positions[1].sl = arg.positions[1].sl
    /\ positions[1].sl # sent[1].sl

\* C22 as claimed: when the broker's symbol-spec lookup returns nothing,
\* compute_lot_size returns 0 without an exception and leaves daily_loss and
\* consecutive_losses as they were, and manage_trailing_stops sends no request
\* and raises no exception.
C22_Claimed ==
    /\ (op = "compute_lot_size" /\ arg.symbol_info = None) =>
          /\ raised = ""
          /\ ret = 0
          /\ daily_loss = pre.daily_loss
          /\ consecutive_losses = pre.consecutive_losses
    /\ (op = "manage_trailing_stops" /\ arg.symbol_info = None) =>
          /\ raised = ""
          /\ sent = << >>

\* C26 as claimed: an order placed for a signal has the signal's direction:
\* for a LONG signal every order request execute_signal sends is a buy market
\* order priced at the ask, for a SHORT signal a sell market order priced at
\* the bid, with the signal's sl_price and tp_price attached.
C26_Claimed ==
    op = "execute_signal" =>
        \A k \in 1..Len(sent) :
            LET tick == arg.broker[k].tick[1]
            IN  /\ arg.signal.side = "LONG" =>
                      sent[k].type = "ORDER_TYPE_BUY" /\ sent[k].price = tick.ask
                /\ arg.signal.side = "SHORT" =>
                      sent[k].type = "ORDER_TYPE_SELL" /\ sent[k].price = tick.bid
                /\ sent[k].sl = << arg.signal.sl_price >>
                /\ sent[k].tp = << arg.signal.tp_price >>

\* ------------------------------------------------------ polling-loop claims
\* the calls to method among the calls of the last iteration
CallsTo(method) == { k \in 1..Len(calls) : calls[k].op = method }

\* C23: a returned signal carries the time of the last fast-TF bar generate
\* was given, and in the polling loop each closed fast-TF bar is passed to
\* generate at most once: generate is called only with a last closed bar
\* strictly later than the last processed one (the times passed so far are
\* strictly increasing), at most once in an iteration, and execute_signal at
\* most once in an iteration, for the signal of that bar, so at most one order
\* is placed per closed bar.
C23_OncePerBar ==
    /\ \A i, j \in 1..Len(evaluated) : i < j => evaluated[i] < evaluated[j]
    /\ Cardinality(CallsTo("generate")) <= 1
    /\ Cardinality(CallsTo("execute_signal")) <= 1
    /\ \A k \in CallsTo("generate") :
          /\ calls[k].last_bar > calls[k].marker
          /\ calls[k].last_bar = evaluated[Len(evaluated)]
          /\ calls[k].ret # None => calls[k].ret[1].tf1_close_time = calls[k].last_bar
    /\ \A k \in CallsTo("execute_signal") :
          /\ calls[k].signal.tf1_close_time = evaluated[Len(evaluated)]
          /\ CallsTo("generate") # {}

\* a second bar was passed to generate, later than the first, and the order
\* for its signal was placed
C23_Witness ==
    /\ Len(evaluated) >= 2
    /\ last_tf1_close_time = << evaluated[Len(evaluated)] >>
    /\ \E k \in CallsTo("execute_signal") : calls[k].ret # None

\* what C27 says of the state an iteration leaves
HaltsWhenUnsafe ==
    /\ (\E k \in CallsTo("check_safety") : ~calls[k].ret) =>
          /\ pc = "stopped"
          /\ CallsTo("execute_signal") = {}
          /\ sent = << >>
    /\ \A k \in CallsTo("execute_signal") :
          /\ k > 1
          /\ calls[k - 1].op = "compute_lot_size"
          /\ calls[k - 1].ret = calls[k].lot_size
          /\ calls[k].lot_size > 0
    /\ sent # << >> => CallsTo("execute_signal") # {}

\* C27: in the polling loop no order is placed once the risk state is unsafe:
\* the iteration in which check_safety returns false ends the loop without a
\* call to execute_signal, nothing is called once the loop has ended, and
\* within an iteration execute_signal is called only with a lot size > 0 that
\* compute_lot_size returned just before in that iteration.
C27_NoOrderOnceUnsafe == [][HaltsWhenUnsafe' /\ pc \in { "start", "loop" }]_vars

\* after a bar was evaluated the safety check fails and the loop has stopped
C27_Witness ==
    /\ pc = "stopped"
    /\ Len(evaluated) >= 1
    /\ \E k \in CallsTo("check_safety") : ~calls[k].ret

\* -------------------------------------------------------------- indicators
\* The indicators compute in floats; the model computes in exact fractions
\* [num, den] in lowest terms with den > 0, an undefined value (NaN) having
\* den = 0.  Prices are whole numbers of 0.000001, so that the 1e-9 that
\* replaces a zero smoothed loss or true range is 1/1000 of the unit.
RECURSIVE Gcd(_, _)
Gcd(a, b) == IF b = 0 THEN a ELSE Gcd(b, a % b)

Frac(n, d) ==
    LET g == Gcd(abs(n), abs(d))
        sign == IF d < 0 THEN -1 ELSE 1
    IN  [num |-> sign * (n \div g), den |-> sign * (d \div g)]
Whole(n) == [num |-> n, den |-> 1]
undefined == [num |-> 0, den |-> 0]
notna(x) == x.den # 0

Plus(x, y) == IF notna(x) /\ notna(y) THEN Frac(x.num * y.den + y.num * x.den, x.den * y.den) ELSE undefined
Minus(x, y) == IF notna(x) /\ notna(y) THEN Frac(x.num * y.den - y.num * x.den, x.den * y.den) ELSE undefined
Times(x, y) == IF notna(x) /\ notna(y) THEN Frac(x.num * y.num, x.den * y.den) ELSE undefined
\* the divisors of the indicators are never 0: a 0 is replaced before
Over(x, y) == IF notna(x) /\ notna(y) THEN Frac(x.num * y.den, x.den * y.num) ELSE undefined
Magnitude(x) == [x EXCEPT !.num = abs(x.num)]
\* x > y of floats, False when either is NaN
Greater(x, y) == notna(x) /\ notna(y) /\ x.num * y.den > y.num * x.den
Largest(x, y) == IF Greater(y, x) THEN y ELSE x

price_epsilon == [num |-> 1, den |-> 1000]
epsilon == [num |-> 1, den |-> 1000000000]
\* series.replace(0, e)
replace_zero(x, e) == IF notna(x) /\ x.num = 0 THEN e ELSE x

\* series.shift(1) and series.diff() at row i
shift(series, i) == IF i = 1 THEN undefined ELSE series[i - 1]
diff(series, i) == Minus(series[i], shift(series, i))

\* series.ewm(alpha=1/period, min_periods=period, adjust=False).mean() of a
\* series whose undefined values are all at its start: the average starts at
\* the first defined value x, y = x, goes on as y = (1 - alpha) * y + alpha * x,
\* and is shown from the period-th defined value on
RECURSIVE ewm_mean(_, _, _, _, _)
ewm_mean(series, period, i, y, seen) ==
    IF i > Len(series) THEN << >>
    ELSE IF ~notna(series[i])
    THEN << IF seen >= period THEN y ELSE undefined >> \o ewm_mean(series, period, i + 1, y, seen)
    ELSE LET next == IF seen = 0 THEN series[i]
                     ELSE Over(Plus(Times(Whole(period - 1), y), series[i]), Whole(period))
         IN  << IF seen + 1 >= period THEN next ELSE undefined >>
             \o ewm_mean(series, period, i + 1, next, seen + 1)
ewm(series, period) == ewm_mean(series, period, 1, undefined, 0)

\* mutant: the losses keep their sign
rsi_signed_loss(series, period) ==
    LET rows == 1..Len(series)
        delta == [i \in rows |-> diff(series, i)]
        up == [i \in rows |-> IF Greater(Whole(0), delta[i]) THEN Whole(0) ELSE delta[i]]
        down == [i \in rows |-> IF Greater(delta[i], Whole(0)) THEN Whole(0) ELSE delta[i]]
        ma_up == ewm(up, period)
        ma_down == ewm(down, period)
        rs == [i \in rows |-> Over(ma_up[i], replace_zero(ma_down[i], price_epsilon))]
    IN  [i \in rows |-> Minus(Whole(100), Over(Whole(100), Plus(Whole(1), rs[i])))]

\* the series of fractions of a series of prices
rsi(series, period) ==
    LET rows == 1..Len(series)
        delta == [i \in rows |-> diff(series, i)]
        up == [i \in rows |-> IF Greater(Whole(0), delta[i]) THEN Whole(0) ELSE delta[i]]
        down == [i \in rows |-> Times(Whole(-1), IF Greater(delta[i], Whole(0)) THEN Whole(0)
                                                 ELSE delta[i])]
        ma_up == ewm(up, period)
        ma_down == ewm(down, period)
        rs == [i \in rows |-> Over(ma_up[i], replace_zero(ma_down[i], price_epsilon))]
    IN  [i \in rows |-> Minus(Whole(100), Over(Whole(100), Plus(Whole(1), rs[i])))]

\* np.dot(x, weights) of the window ending at row i, weights[k] = k
RECURSIVE dot(_, _, _, _)
dot(series, i, period, k) ==
    IF k = 0 THEN Whole(0)
    ELSE Plus(Times(Whole(k), series[i - period + k]), dot(series, i, period, k - 1))

\* mutant: the weights run from the newest value to the oldest
wma_newest_first(series, period) ==
    [i \in 1..Len(series) |->
        IF i < period THEN undefined
        ELSE LET newest_first == [k \in 1..period |-> series[i + 1 - k]]
             IN  Over(dot(newest_first, period, period, period),
                      Whole((period * (period + 1)) \div 2))]

\* series.rolling(period).apply(calc): undefined until the window is full
wma(series, period) ==
    [i \in 1..Len(series) |->
        IF i < period THEN undefined
        ELSE Over(dot(series, i, period, period), Whole((period * (period + 1)) \div 2))]

adx(high, low, close, period) ==
    LET rows == 1..Len(close)
        tr1 == [i \in rows |-> Minus(high[i], low[i])]
        tr2 == [i \in rows |-> Magnitude(Minus(high[i], shift(close, i)))]
        tr3 == [i \in rows |-> Magnitude(Minus(low[i], shift(close, i)))]
        tr == [i \in rows |-> Largest(Largest(tr1[i], tr2[i]), tr3[i])]
        up_move == [i \in rows |-> Minus(high[i], shift(high, i))]
        down_move == [i \in rows |-> Minus(shift(low, i), low[i])]
        plus_dm == [i \in rows |->
                      IF Greater(up_move[i], down_move[i]) /\ Greater(up_move[i], Whole(0))
                      THEN up_move[i] ELSE Whole(0)]
        minus_dm == [i \in rows |->
                       IF Greater(down_move[i], up_move[i]) /\ Greater(down_move[i], Whole(0))
                       THEN down_move[i] ELSE Whole(0)]
        tr_smooth == ewm(tr, period)
        plus_dm_smooth == ewm(plus_dm, period)
        minus_dm_smooth == ewm(minus_dm, period)
        plus_di == [i \in rows |->
                      Times(Whole(100), Over(plus_dm_smooth[i],
                                             replace_zero(tr_smooth[i], price_epsilon)))]
        minus_di == [i \in rows |->
                       Times(Whole(100), Over(minus_dm_smooth[i],
                                              replace_zero(tr_smooth[i], price_epsilon)))]
        dx == [i \in rows |->
                 Times(Whole(100), Over(Magnitude(Minus(plus_di[i], minus_di[i])),
                                        replace_zero(Plus(plus_di[i], minus_di[i]), epsilon)))]
    IN  ewm(dx, period)

\* a call of an indicator on the candles of arg, as compute_indicators makes
\* it: rsi and wma on the closes, adx on the highs, lows and closes
Call_indicator(name, series) ==
    /\ op' = name
    /\ ret' = series
    /\ UNCHANGED << daily_loss, consecutive_losses, halt_trading, half_up, arg, raised,
                    logged, pre, positions, sent >>
    /\ UNCHANGED loop

Call_rsi == Call_indicator("rsi", rsi(arg.close, arg.period))
Call_wma == Call_indicator("wma", wma(arg.close, arg.period))
Call_adx == Call_indicator("adx", adx(arg.high, arg.low, arg.close, arg.period))

\* ------------------------------------------------ indicator specification
\* candles << high, low, close >> with low <= close <= high: flat, wide,
\* closing at the high and closing at the low
Candles == { << 2, 2, 2 >>, << 3, 1, 2 >>, << 3, 2, 3 >>, << 2, 1, 1 >>, << 4, 3, 4 >> }
CandleSeries == UNION { [1..n -> Candles] : n \in 1..MaxBars }
Column(candles, c) == [i \in 1..Len(candles) |-> Whole(candles[i][c])]

InitIndicators ==
    /\ Fresh
    /\ NoPositions
    /\ half_up = {}
    /\ \E candles \in CandleSeries, period \in 1..MaxPeriod :
          arg = [high |-> Column(candles, 1), low |-> Column(candles, 2),
                 close |-> Column(candles, 3), period |-> period]

NextIndicators ==
    \/ Call_rsi
    \/ Call_wma
    \/ Call_adx

SpecIndicators == InitIndicators /\ [][NextIndicators]_vars

\* -------------------------------------------------------- indicator claims
\* 0 <= x <= 100 for a defined x
InRange(x) == x.num >= 0 /\ x.num <= 100 * x.den

\* C24: for any series of candles and any period >= 1, every defined output
\* of rsi and of adx lies in the closed interval [0, 100], the outputs where
\* the smoothed loss, the true range or the DI sum is zero included.
C24_Bounded ==
    op \in { "rsi", "adx" } =>
        \A i \in 1..Len(ret) : notna(ret[i]) => InRange(ret[i])

\* an RSI is defined where no close so far was lower than the one before (the
\* smoothed loss is zero) and one was higher: it is just below 100
C24_Witness ==
    /\ op = "rsi"
    /\ Len(ret) >= 3
    /\ \A i \in 2..Len(ret) : ~Greater(arg.close[i - 1], arg.close[i])
    /\ \E i \in 2..Len(ret) : Greater(arg.close[i], arg.close[i - 1])
    /\ notna(ret[Len(ret)])
    /\ Greater(ret[Len(ret)], Whole(99))
    /\ Greater(Whole(100), ret[Len(ret)])

\* the sum of k * series[i - period + k] over the weights k = 1..period
RECURSIVE WeightedSum(_, _, _, _)
WeightedSum(series, i, period, k) ==
    IF k = 0 THEN 0 ELSE k * series[i - period + k].num + WeightedSum(series, i, period, k - 1)
RECURSIVE WeightSum(_)
WeightSum(k) == IF k = 0 THEN 0 ELSE k + WeightSum(k - 1)

\* C25: for a fully defined series of length n >= period, wma has exactly
\* period - 1 leading undefined outputs and every output from the period-th on
\* is defined and equals the weighted sum of its trailing window, weights
\* 1..period from the oldest value to the newest, divided by the weight sum.
C25_WeightedAverage ==
    (op = "wma" /\ Len(arg.close) >= arg.period) =>
        /\ Len(ret) = Len(arg.close)
        /\ \A i \in 1..Len(ret) :
              IF i < arg.period THEN ~notna(ret[i])
              ELSE /\ notna(ret[i])
                   /\ ret[i].num * WeightSum(arg.period)
                        = WeightedSum(arg.close, i, arg.period, arg.period) * ret[i].den

\* a window of three different closes: the newest weighs most
C25_Witness ==
    /\ op = "wma"
    /\ arg.period = 3
    /\ Len(arg.close) = 4
    /\ arg.close[2] # arg.close[4]
    /\ ~notna(ret[2])
    /\ notna(ret[3])
    /\ ret[4] # Over(Plus(Plus(arg.close[2], arg.close[3]), arg.close[4]), Whole(3))

====
